---- MODULE Spec2Model ----
(***************************************************************************)
(* Model of synapse/handlers/room.py: the room handlers MessageHandler,    *)
(* RoomCreationHandler and RoomMemberHandler.                               *)
(*                                                                         *)
(* Every handler is a twisted inlineCallbacks generator: it runs           *)
(* synchronously from one `yield` to the next.  A process stands at the    *)
(* yield named by pc; an action is the completion of that yield (the       *)
(* collaborator's effect and its return or raise) followed by the          *)
(* synchronous code up to the next yield.                                  *)
(***************************************************************************)
EXTENDS Integers, Sequences, FiniteSets, TLC

\* ---------------------------------------------------------------- bounds
\* the concurrent invocations
Procs == {"p1", "p2"}

\* how many collaborator calls (store, state handler, federation) may fail in a run
MaxFaults == 1

\* while attempts < 5
MaxAttempts == 5

Rooms == {"r1", "r2"}

LocalUsers == {"u1", "u2"}

RemoteUsers == {"v"}

Users == LocalUsers \cup RemoteUsers

server_name == "local"

\* UserID.from_string(s, hs).domain
domain(u) == IF u \in LocalUsers THEN server_name ELSE "remote"

\* UserID.from_string(s, hs).is_mine
is_mine(u) == domain(u) = server_name

NoOne == "-"

NoUser == "-"

NoRoom == [exists |-> FALSE, creator |-> NoUser, is_public |-> FALSE]

NoRow == [membership |-> "none", sender |-> NoUser]

\* Membership.INVITE, Membership.JOIN, Membership.LEAVE
INVITE == "invite"

JOIN == "join"

LEAVE == "leave"

\* ---------------------------------------------------------------- state
VARIABLES
    room_lock,      \* room -> the invocation holding the room's lock, or NoOne
    lock_tickets,   \* room -> number of acquisitions of its lock granted so far
    rooms,          \* store: room -> room record (NoRoom when absent)
    room_members,   \* store: <<room, user>> -> membership row (NoRow when absent)
    store_seq,      \* store: last sequence id handed out
    pc,             \* invocation -> the yield it stands at
    top,            \* invocation -> the handler the caller invoked
    event,          \* invocation -> the event of the innermost running handler
    args,           \* invocation -> flags of the innermost running handler
    locals,         \* invocation -> local variables of the running handlers
    result,         \* invocation -> how it ended
    hist            \* invocation -> the collaborator calls it completed, in order

vars == <<room_lock, lock_tickets, rooms, room_members, store_seq,
          pc, top, event, args, locals, result, hist>>

store_vars == <<rooms, room_members, store_seq>>

NoEvent ==
    [type |-> "none", room_id |-> "r1", user_id |-> NoUser,
     target_user_id |-> NoUser, membership |-> "none",
     content_membership |-> "none", body |-> <<>>, hsob_ts |-> FALSE,
     destinations |-> {}]

NoArgs ==
    [suppress_auth |-> FALSE, broadcast_msg |-> FALSE, do_auth |-> TRUE,
     user_id |-> NoUser, room_id |-> "", is_public |-> FALSE,
     event_type |-> "", public_room_rules |-> {}, private_room_rules |-> {}]

NoLocals ==
    [store_id |-> 0, is_remote_invite_join |-> FALSE, inviter |-> NoUser,
     attempts |-> 0, room_id |-> "", ticket |-> 0,
     room |-> NoRoom, private_room_rules |-> {}]

\* the room_id argument of create_room when the caller gives none
None == ""

\* MessageEvent / FeedbackEvent built by the caller
MessageLike(t, r, u) ==
    [NoEvent EXCEPT !.type = t, !.room_id = r, !.user_id = u]

\* RoomMemberEvent: the callers set membership and content["membership"] alike
RoomMemberEvent(r, u, t, m) ==
    [NoEvent EXCEPT !.type = "member", !.room_id = r, !.user_id = u,
                    !.target_user_id = t, !.membership = m,
                    !.content_membership = m]

\* stamp(event): event.content["hsob_ts"] = now
stamp(e) == [e EXCEPT !.hsob_ts = TRUE]

\* one completed collaborator call
Call(p, what, e, id) ==
    [call |-> what, ev |-> e, id |-> id,
     held |-> room_lock[e.room_id] = p, ticket |-> locals[p].ticket]

Log(p, what, e, id) == [hist EXCEPT ![p] = Append(@, Call(p, what, e, id))]

\* ---------------------------------------------------------------- store
\* store.get_joined_hosts_for_room(room_id), over the rows mem
get_joined_hosts_for_room(mem, r) ==
    {domain(u) : u \in {x \in Users : mem[<<r, x>>].membership = JOIN}}

\* store.get_room(room_id): falsy when the room has no record
get_room(r) == rooms[r].exists

\* store.store_room(room_id, room_creator_user_id, is_public) on the rooms rs,
\* for an id the store does not hold yet (it refuses one it holds)
store_room(rs, room_id, creator, is_public) ==
    [rs EXCEPT ![room_id] =
        [exists |-> TRUE, creator |-> creator, is_public |-> is_public]]

\* ---------------------------------------------------------------- lock
\* room_lock.lock(room_id) fires: the lock is free and p takes it
Acquire(p, r) ==
    /\ room_lock[r] = NoOne
    /\ room_lock' = [room_lock EXCEPT ![r] = p]
    /\ lock_tickets' = [lock_tickets EXCEPT ![r] = @ + 1]

\* leaving the `with` block, by return or by raise
Release(p, r) ==
    /\ room_lock' = [room_lock EXCEPT ![r] = IF @ = p THEN NoOne ELSE @]
    /\ UNCHANGED lock_tickets

\* ---------------------------------------------------------------- init
\* Rows of the store before the invocations start: the membership rows that
\* change_membership(invite) calls with the remote sender "v" left in room r1,
\* and the row that a change_membership(leave) of u1 left in room r2.
InitInvited == LocalUsers

InitLeft == {<<"r2", "u1">>}

Init ==
    /\ room_lock = [r \in Rooms |-> NoOne]
    /\ lock_tickets = [r \in Rooms |-> 0]
    /\ rooms = [r \in Rooms |-> NoRoom]
    /\ room_members = [k \in Rooms \X Users |->
            IF k[1] = "r1" /\ k[2] \in InitInvited
            THEN [membership |-> INVITE, sender |-> "v"]
            ELSE IF k \in InitLeft
            THEN [membership |-> LEAVE, sender |-> k[2]]
            ELSE NoRow]
    /\ store_seq = 0
    /\ pc = [p \in Procs |-> "idle"]
    /\ top = [p \in Procs |-> "none"]
    /\ event = [p \in Procs |-> NoEvent]
    /\ args = [p \in Procs |-> NoArgs]
    /\ locals = [p \in Procs |-> NoLocals]
    /\ result = [p \in Procs |-> "pending"]
    /\ hist = [p \in Procs |-> <<>>]

\* ---------------------------------------------------------------- ends
\* the invocation returns to its caller
Return(p) ==
    /\ pc' = [pc EXCEPT ![p] = "done"]
    /\ result' = [result EXCEPT ![p] = "ok"]

\* an exception propagates to the caller (nothing in the call chain catches it)
Raise(p, err) ==
    /\ pc' = [pc EXCEPT ![p] = "done"]
    /\ result' = [result EXCEPT ![p] = err]

\* how a collaborator failure ends an invocation
Failures == {"StoreFailure", "StateFailure", "FederationFailure"}

\* a collaborator call fails and the exception propagates to the caller
Fault(p, err) ==
    /\ Cardinality({q \in Procs : result[q] \in Failures}) < MaxFaults
    /\ Raise(p, err)

\* ---------------------------------------------------------------- send_message
\* the caller invokes send_message(event, suppress_auth, stamp_event)
call_send_message(p) ==
    /\ pc[p] = "idle"
    /\ \E r \in Rooms, sa \in BOOLEAN :
         /\ event' = [event EXCEPT ![p] = stamp(MessageLike("message", r, "u1"))]
         /\ args' = [args EXCEPT ![p] = [NoArgs EXCEPT !.suppress_auth = sa]]
    /\ top' = [top EXCEPT ![p] = "send_message"]
    /\ pc' = [pc EXCEPT ![p] = "sm_lock"]
    /\ UNCHANGED <<room_lock, lock_tickets, store_vars, locals, result, hist>>

\* sm_lock entering the block without waiting for the lock to be free
sm_lock_no_wait(p) ==
    /\ pc[p] = "sm_lock"
    /\ room_lock' = [room_lock EXCEPT ![event[p].room_id] = p]
    /\ lock_tickets' = [lock_tickets EXCEPT ![event[p].room_id] = @ + 1]
    /\ locals' = [locals EXCEPT ![p].ticket = lock_tickets[event[p].room_id] + 1]
    /\ pc' = [pc EXCEPT ![p] = IF args[p].suppress_auth THEN "sm_persist" ELSE "sm_auth"]
    /\ UNCHANGED <<store_vars, top, event, args, result, hist>>

\* with (yield self.room_lock.lock(event.room_id)):
sm_lock(p) ==
    /\ pc[p] = "sm_lock"
    /\ Acquire(p, event[p].room_id)
    /\ locals' = [locals EXCEPT ![p].ticket = lock_tickets[event[p].room_id] + 1]
    /\ pc' = [pc EXCEPT ![p] = IF args[p].suppress_auth THEN "sm_persist" ELSE "sm_auth"]
    /\ UNCHANGED <<store_vars, top, event, args, result, hist>>

\* yield self.auth.check(event, raises=True)
sm_auth(p) ==
    /\ pc[p] = "sm_auth"
    /\ \/ /\ pc' = [pc EXCEPT ![p] = "sm_persist"]
          /\ hist' = Log(p, "auth", event[p], 0)
          /\ UNCHANGED <<room_lock, lock_tickets, result>>
       \/ /\ Raise(p, "AuthError")
          /\ Release(p, event[p].room_id)
          /\ hist' = Log(p, "auth_failed", event[p], 0)
    /\ UNCHANGED <<store_vars, top, event, args, locals>>

\* store_id = yield self.store.persist_event(event)
sm_persist(p) ==
    /\ pc[p] = "sm_persist"
    /\ \/ /\ store_seq' = store_seq + 1
          /\ locals' = [locals EXCEPT ![p].store_id = store_seq + 1]
          /\ hist' = Log(p, "persist", event[p], store_seq + 1)
          /\ pc' = [pc EXCEPT ![p] = "sm_hosts"]
          /\ UNCHANGED <<room_lock, lock_tickets, result>>
       \/ /\ Fault(p, "StoreFailure")
          /\ Release(p, event[p].room_id)
          /\ UNCHANGED <<store_seq, locals, hist>>
    /\ UNCHANGED <<rooms, room_members, top, event, args>>

\* sm_hosts leaving the `with` block before the forward, as send_feedback does
sm_hosts_leaves_block(p) ==
    /\ pc[p] = "sm_hosts"
    /\ \/ /\ event' = [event EXCEPT ![p].destinations =
                          get_joined_hosts_for_room(room_members, event[p].room_id)]
          /\ pc' = [pc EXCEPT ![p] = "sm_fed"]
          /\ UNCHANGED result
       \/ /\ Fault(p, "StoreFailure")
          /\ UNCHANGED event
    /\ Release(p, event[p].room_id)
    /\ UNCHANGED <<store_vars, top, args, locals, hist>>

\* event.destinations = yield self.store.get_joined_hosts_for_room(room_id)
sm_hosts(p) ==
    /\ pc[p] = "sm_hosts"
    /\ \/ /\ event' = [event EXCEPT ![p].destinations =
                          get_joined_hosts_for_room(room_members, event[p].room_id)]
          /\ pc' = [pc EXCEPT ![p] = "sm_fed"]
          /\ UNCHANGED <<room_lock, lock_tickets, result>>
       \/ /\ Fault(p, "StoreFailure")
          /\ Release(p, event[p].room_id)
          /\ UNCHANGED event
    /\ UNCHANGED <<store_vars, top, args, locals, hist>>

\* sm_fed releasing the lock by hand after the notification only
sm_fed_keeps_lock_on_error(p) ==
    /\ pc[p] = "sm_fed"
    /\ \/ /\ hist' = [hist EXCEPT ![p] =
                 @ \o <<Call(p, "federation", event[p], locals[p].store_id),
                        Call(p, "notify", event[p], locals[p].store_id)>>]
          /\ Return(p)
          /\ Release(p, event[p].room_id)
       \/ /\ Fault(p, "FederationFailure")
          /\ hist' = Log(p, "federation_failed", event[p], locals[p].store_id)
          /\ UNCHANGED <<room_lock, lock_tickets>>
    /\ UNCHANGED <<store_vars, top, event, args, locals>>

\* yield federation.handle_new_event(event); notifier.on_new_event(event, store_id);
\* the `with` block ends and send_message returns to its caller, and so do
\* _inject_membership_msg, change_membership and create_room above it
sm_fed(p) ==
    /\ pc[p] = "sm_fed"
    /\ \/ /\ hist' = [hist EXCEPT ![p] =
                 @ \o <<Call(p, "federation", event[p], locals[p].store_id),
                        Call(p, "notify", event[p], locals[p].store_id)>>]
          /\ Return(p)
       \/ /\ Fault(p, "FederationFailure")
          /\ hist' = Log(p, "federation_failed", event[p], locals[p].store_id)
    /\ Release(p, event[p].room_id)
    /\ UNCHANGED <<store_vars, top, event, args, locals>>

send_message(p) ==
    \/ sm_lock(p)
    \/ sm_auth(p)
    \/ sm_persist(p)
    \/ sm_hosts(p)
    \/ sm_fed(p)

\* ---------------------------------------------------------------- send_feedback
\* the caller invokes send_feedback(event, stamp_event)
call_send_feedback(p) ==
    /\ pc[p] = "idle"
    /\ \E r \in Rooms :
         event' = [event EXCEPT ![p] = stamp(MessageLike("feedback", r, "u1"))]
    /\ top' = [top EXCEPT ![p] = "send_feedback"]
    /\ pc' = [pc EXCEPT ![p] = "sf_lock"]
    /\ UNCHANGED <<room_lock, lock_tickets, store_vars, args, locals, result, hist>>

\* sf_lock entering the block without waiting for the lock to be free
sf_lock_no_wait(p) ==
    /\ pc[p] = "sf_lock"
    /\ room_lock' = [room_lock EXCEPT ![event[p].room_id] = p]
    /\ lock_tickets' = [lock_tickets EXCEPT ![event[p].room_id] = @ + 1]
    /\ locals' = [locals EXCEPT ![p].ticket = lock_tickets[event[p].room_id] + 1]
    /\ pc' = [pc EXCEPT ![p] = "sf_auth"]
    /\ UNCHANGED <<store_vars, top, event, args, result, hist>>

\* with (yield self.room_lock.lock(event.room_id)):
sf_lock(p) ==
    /\ pc[p] = "sf_lock"
    /\ Acquire(p, event[p].room_id)
    /\ locals' = [locals EXCEPT ![p].ticket = lock_tickets[event[p].room_id] + 1]
    /\ pc' = [pc EXCEPT ![p] = "sf_auth"]
    /\ UNCHANGED <<store_vars, top, event, args, result, hist>>

\* yield self.auth.check(event, raises=True)
sf_auth(p) ==
    /\ pc[p] = "sf_auth"
    /\ \/ /\ pc' = [pc EXCEPT ![p] = "sf_persist"]
          /\ hist' = Log(p, "auth", event[p], 0)
          /\ UNCHANGED <<room_lock, lock_tickets, result>>
       \/ /\ Raise(p, "AuthError")
          /\ Release(p, event[p].room_id)
          /\ hist' = Log(p, "auth_failed", event[p], 0)
    /\ UNCHANGED <<store_vars, top, event, args, locals>>

\* store_id = yield self.store.persist_event(event)
sf_persist(p) ==
    /\ pc[p] = "sf_persist"
    /\ \/ /\ store_seq' = store_seq + 1
          /\ locals' = [locals EXCEPT ![p].store_id = store_seq + 1]
          /\ hist' = Log(p, "persist", event[p], store_seq + 1)
          /\ pc' = [pc EXCEPT ![p] = "sf_hosts"]
          /\ UNCHANGED <<room_lock, lock_tickets, result>>
       \/ /\ Fault(p, "StoreFailure")
          /\ Release(p, event[p].room_id)
          /\ UNCHANGED <<store_seq, locals, hist>>
    /\ UNCHANGED <<rooms, room_members, top, event, args>>

\* sf_hosts with the federation forward still inside the `with` block
sf_hosts_keeps_lock(p) ==
    /\ pc[p] = "sf_hosts"
    /\ \/ /\ event' = [event EXCEPT ![p].destinations =
                          get_joined_hosts_for_room(room_members, event[p].room_id)]
          /\ pc' = [pc EXCEPT ![p] = "sf_fed"]
          /\ UNCHANGED <<room_lock, lock_tickets, result>>
       \/ /\ Fault(p, "StoreFailure")
          /\ Release(p, event[p].room_id)
          /\ UNCHANGED event
    /\ UNCHANGED <<store_vars, top, args, locals, hist>>

\* event.destinations = yield self.store.get_joined_hosts_for_room(room_id);
\* the `with` block ends here
sf_hosts(p) ==
    /\ pc[p] = "sf_hosts"
    /\ \/ /\ event' = [event EXCEPT ![p].destinations =
                          get_joined_hosts_for_room(room_members, event[p].room_id)]
          /\ pc' = [pc EXCEPT ![p] = "sf_fed"]
          /\ UNCHANGED result
       \/ /\ Fault(p, "StoreFailure")
          /\ UNCHANGED event
    /\ Release(p, event[p].room_id)
    /\ UNCHANGED <<store_vars, top, args, locals, hist>>

\* yield federation.handle_new_event(event); notifier.on_new_event(event, store_id)
sf_fed(p) ==
    /\ pc[p] = "sf_fed"
    /\ \/ /\ hist' = [hist EXCEPT ![p] =
                 @ \o <<Call(p, "federation", event[p], locals[p].store_id),
                        Call(p, "notify", event[p], locals[p].store_id)>>]
          /\ Return(p)
       \/ /\ Fault(p, "FederationFailure")
          /\ hist' = Log(p, "federation_failed", event[p], locals[p].store_id)
    /\ UNCHANGED <<room_lock, lock_tickets, store_vars, top, event, args, locals>>

send_feedback(p) ==
    \/ sf_lock(p)
    \/ sf_auth(p)
    \/ sf_persist(p)
    \/ sf_hosts(p)
    \/ sf_fed(p)

\* ---------------------------------------------------------------- change_membership
\* the membership events the callers send: <<user_id, target_user_id, membership>>;
\* "banana" stands for any membership value the Membership constants do not name
MemberInputs ==
    {<<"u1", "u1", JOIN>>, <<"u2", "u2", JOIN>>, <<"u1", "u1", LEAVE>>,
     <<"u1", "u2", INVITE>>, <<"u1", "v", INVITE>>, <<"u1", "u1", "banana">>}

\* _inject_membership_msg: the body of the system message
membership_body(source, target, membership) ==
    IF membership = INVITE THEN <<"invited", source, target>>
    ELSE IF membership = JOIN THEN <<"joined", target>>
    ELSE IF membership = LEAVE THEN <<"left", target>>
    ELSE <<>>

\* _inject_membership_msg: the MessageEvent handed to send_message
membership_msg(e) ==
    [MessageLike("message", e.room_id, "_homeserver_") EXCEPT
        !.body = membership_body(e.user_id, e.target_user_id, e.content_membership)]

\* broadcast sending a message with an empty body for an unknown membership
broadcast_unknown_as_empty(p) ==
    IF args[p].broadcast_msg
    THEN /\ event' = [event EXCEPT ![p] = stamp(membership_msg(event[p]))]
         /\ args' = [args EXCEPT ![p].suppress_auth = TRUE]
         /\ pc' = [pc EXCEPT ![p] = "sm_lock"]
         /\ UNCHANGED result
    ELSE /\ Return(p)
         /\ UNCHANGED <<event, args>>

\* the end of change_membership: with broadcast_msg, _inject_membership_msg
\* raises on an unknown membership and otherwise calls
\* send_message(event, suppress_auth=True), which stamps the event and
\* waits for the room lock; without it the handler returns
broadcast(p) ==
    IF args[p].broadcast_msg
    THEN IF membership_body(event[p].user_id, event[p].target_user_id,
                            event[p].content_membership) = <<>>
         THEN /\ Raise(p, "RoomError")
              /\ UNCHANGED <<event, args>>
         ELSE /\ event' = [event EXCEPT ![p] = stamp(membership_msg(event[p]))]
              /\ args' = [args EXCEPT ![p].suppress_auth = TRUE]
              /\ pc' = [pc EXCEPT ![p] = "sm_lock"]
              /\ UNCHANGED result
    ELSE /\ Return(p)
         /\ UNCHANGED <<event, args>>

\* the caller invokes change_membership(event, broadcast_msg, do_auth)
call_change_membership(p) ==
    /\ pc[p] = "idle"
    /\ \E r \in Rooms, m \in MemberInputs, bm \in BOOLEAN, da \in BOOLEAN :
         /\ event' = [event EXCEPT ![p] = RoomMemberEvent(r, m[1], m[2], m[3])]
         /\ args' = [args EXCEPT ![p] =
                        [NoArgs EXCEPT !.broadcast_msg = bm, !.do_auth = da]]
         /\ pc' = [pc EXCEPT ![p] = IF m[3] = JOIN THEN "cmj_lock" ELSE "cmn_lock"]
    /\ top' = [top EXCEPT ![p] = "change_membership"]
    /\ UNCHANGED <<room_lock, lock_tickets, store_vars, locals, result, hist>>

\* JOIN: with (yield self.room_lock.lock(event.room_id)):
cmj_lock(p) ==
    /\ pc[p] = "cmj_lock"
    /\ Acquire(p, event[p].room_id)
    /\ locals' = [locals EXCEPT ![p].ticket = lock_tickets[event[p].room_id] + 1]
    /\ pc' = [pc EXCEPT ![p] = IF args[p].do_auth THEN "cmj_auth" ELSE "cmj_prev"]
    /\ UNCHANGED <<store_vars, top, event, args, result, hist>>

\* JOIN: yield self.auth.check(event, raises=True)
cmj_auth(p) ==
    /\ pc[p] = "cmj_auth"
    /\ \/ /\ pc' = [pc EXCEPT ![p] = "cmj_prev"]
          /\ hist' = Log(p, "auth", event[p], 0)
          /\ UNCHANGED <<room_lock, lock_tickets, result>>
       \/ /\ Raise(p, "AuthError")
          /\ Release(p, event[p].room_id)
          /\ hist' = Log(p, "auth_failed", event[p], 0)
    /\ UNCHANGED <<store_vars, top, event, args, locals>>

\* JOIN: prev_state = yield self.store.get_room_member(target_user_id, room_id);
\* without an invite row is_remote_invite_join is False and the normal join
\* calls the state handler
cmj_prev(p) ==
    /\ pc[p] = "cmj_prev"
    /\ LET prev_state == room_members[<<event[p].room_id, event[p].target_user_id>>]
       IN \/ /\ prev_state.membership = INVITE
             /\ locals' = [locals EXCEPT ![p].inviter = prev_state.sender]
             /\ pc' = [pc EXCEPT ![p] = "cmj_room"]
             /\ hist' = Log(p, "prev_invite", event[p], 0)
             /\ UNCHANGED <<room_lock, lock_tickets, result>>
          \/ /\ prev_state.membership # INVITE
             /\ locals' = [locals EXCEPT ![p].is_remote_invite_join = FALSE]
             /\ pc' = [pc EXCEPT ![p] = "cm_state"]
             /\ hist' = Log(p, "prev_other", event[p], 0)
             /\ UNCHANGED <<room_lock, lock_tickets, result>>
          \/ /\ Fault(p, "StoreFailure")
             /\ Release(p, event[p].room_id)
             /\ UNCHANGED <<locals, hist>>
    /\ UNCHANGED <<store_vars, top, event, args>>

\* cmj_room deciding on the inviter alone, whether or not the room is known
cmj_room_ignores_room(p) ==
    /\ pc[p] = "cmj_room"
    /\ LET room == get_room(event[p].room_id)
           dance == ~is_mine(locals[p].inviter)
       IN \/ /\ locals' = [locals EXCEPT ![p].is_remote_invite_join = dance]
             /\ hist' = Log(p, IF room THEN "room_known" ELSE "room_unknown",
                            event[p], 0)
             /\ IF dance
                THEN /\ pc' = [pc EXCEPT ![p] = "cmd_store_room"]
                     /\ Release(p, event[p].room_id)
                ELSE /\ pc' = [pc EXCEPT ![p] = "cm_state"]
                     /\ UNCHANGED <<room_lock, lock_tickets>>
             /\ UNCHANGED result
          \/ /\ Fault(p, "StoreFailure")
             /\ Release(p, event[p].room_id)
             /\ UNCHANGED <<locals, hist>>
    /\ UNCHANGED <<store_vars, top, event, args>>

\* JOIN: room = yield self.store.get_room(event.room_id);
\* is_remote_invite_join = not inviter.is_mine and not room.  A normal join
\* stays inside the `with` block; the dance leaves it and calls store_room
cmj_room(p) ==
    /\ pc[p] = "cmj_room"
    /\ LET room == get_room(event[p].room_id)
           dance == ~is_mine(locals[p].inviter) /\ ~room
       IN \/ /\ locals' = [locals EXCEPT ![p].is_remote_invite_join = dance]
             /\ hist' = Log(p, IF room THEN "room_known" ELSE "room_unknown",
                            event[p], 0)
             /\ IF dance
                THEN /\ pc' = [pc EXCEPT ![p] = "cmd_store_room"]
                     /\ Release(p, event[p].room_id)
                ELSE /\ pc' = [pc EXCEPT ![p] = "cm_state"]
                     /\ UNCHANGED <<room_lock, lock_tickets>>
             /\ UNCHANGED result
          \/ /\ Fault(p, "StoreFailure")
             /\ Release(p, event[p].room_id)
             /\ UNCHANGED <<locals, hist>>
    /\ UNCHANGED <<store_vars, top, event, args>>

\* not JOIN: with (yield self.room_lock.lock(event.room_id)):
cmn_lock(p) ==
    /\ pc[p] = "cmn_lock"
    /\ Acquire(p, event[p].room_id)
    /\ locals' = [locals EXCEPT ![p].ticket = lock_tickets[event[p].room_id] + 1]
    /\ pc' = [pc EXCEPT ![p] = IF args[p].do_auth THEN "cmn_auth" ELSE "cm_state"]
    /\ UNCHANGED <<store_vars, top, event, args, result, hist>>

\* cmn_auth with the state handler called before the authorization
cmn_auth_after_state(p) ==
    /\ pc[p] = "cmn_auth"
    /\ \/ /\ pc' = [pc EXCEPT ![p] = "cm_state"]
          /\ hist' = Log(p, "auth", event[p], 0)
          /\ UNCHANGED <<room_lock, lock_tickets, result>>
       \/ /\ Raise(p, "AuthError")
          /\ Release(p, event[p].room_id)
          /\ hist' = [hist EXCEPT ![p] =
                 @ \o <<Call(p, "state", event[p], 0),
                        Call(p, "auth_failed", event[p], 0)>>]
    /\ UNCHANGED <<store_vars, top, event, args, locals>>

\* not JOIN: yield self.auth.check(event, raises=True)
cmn_auth(p) ==
    /\ pc[p] = "cmn_auth"
    /\ \/ /\ pc' = [pc EXCEPT ![p] = "cm_state"]
          /\ hist' = Log(p, "auth", event[p], 0)
          /\ UNCHANGED <<room_lock, lock_tickets, result>>
       \/ /\ Raise(p, "AuthError")
          /\ Release(p, event[p].room_id)
          /\ hist' = Log(p, "auth_failed", event[p], 0)
    /\ UNCHANGED <<store_vars, top, event, args, locals>>

\* yield self.state_handler.handle_new_event(event), in both `with` blocks
cm_state(p) ==
    /\ pc[p] = "cm_state"
    /\ \/ /\ pc' = [pc EXCEPT ![p] = "cm_member"]
          /\ hist' = Log(p, "state", event[p], 0)
          /\ UNCHANGED <<room_lock, lock_tickets, result>>
       \/ /\ Fault(p, "StateFailure")
          /\ Release(p, event[p].room_id)
          /\ UNCHANGED hist
    /\ UNCHANGED <<store_vars, top, event, args, locals>>

\* _do_membership_update: store_id = yield self.store.store_room_member(...)
cm_member(p) ==
    /\ pc[p] = "cm_member"
    /\ \/ /\ room_members' = [room_members EXCEPT
                 ![<<event[p].room_id, event[p].target_user_id>>] =
                     [membership |-> event[p].content_membership,
                      sender |-> event[p].user_id]]
          /\ store_seq' = store_seq + 1
          /\ locals' = [locals EXCEPT ![p].store_id = store_seq + 1]
          /\ hist' = Log(p, "member", event[p], store_seq + 1)
          /\ pc' = [pc EXCEPT ![p] = "cm_hosts"]
          /\ UNCHANGED <<room_lock, lock_tickets, result>>
       \/ /\ Fault(p, "StoreFailure")
          /\ Release(p, event[p].room_id)
          /\ UNCHANGED <<room_members, store_seq, locals, hist>>
    /\ UNCHANGED <<rooms, top, event, args>>

\* membership_destinations without the invited user's host
membership_destinations_no_invite(e, joined_hosts) ==
    joined_hosts
        \cup (IF e.content_membership = JOIN THEN {domain(e.target_user_id)} ELSE {})

\* _do_membership_update: the destinations of the membership event
membership_destinations(e, joined_hosts) ==
    joined_hosts
        \cup (IF e.content_membership = INVITE THEN {domain(e.target_user_id)} ELSE {})
        \cup (IF e.content_membership = JOIN THEN {domain(e.target_user_id)} ELSE {})

\* cm_hosts with the rest of change_membership still inside the `with` block
cm_hosts_keeps_lock(p) ==
    /\ pc[p] = "cm_hosts"
    /\ \/ /\ event' = [event EXCEPT ![p].destinations =
                 membership_destinations(event[p],
                     get_joined_hosts_for_room(room_members, event[p].room_id))]
          /\ pc' = [pc EXCEPT ![p] = "cm_fed"]
          /\ UNCHANGED <<result, room_lock, lock_tickets>>
       \/ /\ Fault(p, "StoreFailure")
          /\ Release(p, event[p].room_id)
          /\ UNCHANGED event
    /\ UNCHANGED <<store_vars, top, args, locals, hist>>

\* _do_membership_update: destinations = yield get_joined_hosts_for_room(room_id),
\* event.destinations is set and the `with` block ends
cm_hosts(p) ==
    /\ pc[p] = "cm_hosts"
    /\ \/ /\ event' = [event EXCEPT ![p].destinations =
                 membership_destinations(event[p],
                     get_joined_hosts_for_room(room_members, event[p].room_id))]
          /\ pc' = [pc EXCEPT ![p] = "cm_fed"]
          /\ UNCHANGED result
       \/ /\ Fault(p, "StoreFailure")
          /\ UNCHANGED event
    /\ Release(p, event[p].room_id)
    /\ UNCHANGED <<store_vars, top, args, locals, hist>>

\* cm_fed notifying the subscribers although the forward failed
cm_fed_notifies_on_error(p) ==
    /\ pc[p] = "cm_fed"
    /\ \/ /\ hist' = [hist EXCEPT ![p] =
                 @ \o <<Call(p, "federation", event[p], locals[p].store_id),
                        Call(p, "notify", event[p], locals[p].store_id)>>]
          /\ broadcast(p)
       \/ /\ Fault(p, "FederationFailure")
          /\ hist' = [hist EXCEPT ![p] =
                 @ \o <<Call(p, "notify", event[p], locals[p].store_id),
                        Call(p, "federation_failed", event[p], locals[p].store_id)>>]
          /\ UNCHANGED <<event, args>>
    /\ UNCHANGED <<room_lock, lock_tickets, store_vars, top, locals>>

\* cm_fed notifying with the store's latest sequence id
cm_fed_notifies_latest(p) ==
    /\ pc[p] = "cm_fed"
    /\ \/ /\ hist' = [hist EXCEPT ![p] =
                 @ \o <<Call(p, "federation", event[p], locals[p].store_id),
                        Call(p, "notify", event[p], store_seq)>>]
          /\ broadcast(p)
       \/ /\ Fault(p, "FederationFailure")
          /\ hist' = Log(p, "federation_failed", event[p], locals[p].store_id)
          /\ UNCHANGED <<event, args>>
    /\ UNCHANGED <<room_lock, lock_tickets, store_vars, top, locals>>

\* yield federation.handle_new_event(event); notifier.on_new_event(event, store_id);
\* then the broadcast of the membership message
cm_fed(p) ==
    /\ pc[p] = "cm_fed"
    /\ \/ /\ hist' = [hist EXCEPT ![p] =
                 @ \o <<Call(p, "federation", event[p], locals[p].store_id),
                        Call(p, "notify", event[p], locals[p].store_id)>>]
          /\ broadcast(p)
       \/ /\ Fault(p, "FederationFailure")
          /\ hist' = Log(p, "federation_failed", event[p], locals[p].store_id)
          /\ UNCHANGED <<event, args>>
    /\ UNCHANGED <<room_lock, lock_tickets, store_vars, top, locals>>

\* the dance: yield self.store.store_room(event.room_id, str(inviter), is_public=False)
cmd_store_room(p) ==
    /\ pc[p] = "cmd_store_room"
    /\ IF rooms[event[p].room_id].exists
       THEN /\ Raise(p, "StoreError")
            /\ hist' = Log(p, "store_room_failed", event[p], 0)
            /\ UNCHANGED rooms
       ELSE /\ rooms' = store_room(rooms, event[p].room_id, locals[p].inviter, FALSE)
            /\ hist' = Log(p, "store_room", event[p], 0)
            /\ pc' = [pc EXCEPT ![p] = "cmd_fed"]
            /\ UNCHANGED result
    /\ UNCHANGED <<room_lock, lock_tickets, room_members, store_seq, top, event,
                   args, locals>>

\* the dance: the InviteJoinEvent sent to the inviter's host
InviteJoinEvent(e, inviter) ==
    [NoEvent EXCEPT !.type = "invite_join", !.room_id = e.room_id,
                    !.user_id = e.user_id, !.target_user_id = inviter,
                    !.destinations = {domain(inviter)}]

\* the dance: yield federation.handle_new_event(new_event)
cmd_fed(p) ==
    /\ pc[p] = "cmd_fed"
    /\ \/ /\ hist' = Log(p, "federation", InviteJoinEvent(event[p], locals[p].inviter), 0)
          /\ pc' = [pc EXCEPT ![p] = "cmd_state"]
          /\ UNCHANGED result
       \/ /\ Fault(p, "FederationFailure")
          /\ hist' = Log(p, "federation_failed",
                         InviteJoinEvent(event[p], locals[p].inviter), 0)
    /\ UNCHANGED <<room_lock, lock_tickets, store_vars, top, event, args, locals>>

\* the dance: yield federation.get_state_for_room(inviter.domain, event.room_id);
\* then the broadcast of the membership message
cmd_state(p) ==
    /\ pc[p] = "cmd_state"
    /\ \/ /\ hist' = Log(p, "get_state", InviteJoinEvent(event[p], locals[p].inviter), 0)
          /\ broadcast(p)
       \/ /\ Fault(p, "FederationFailure")
          /\ UNCHANGED <<hist, event, args>>
    /\ UNCHANGED <<room_lock, lock_tickets, store_vars, top, locals>>

change_membership(p) ==
    \/ cmj_lock(p)
    \/ cmj_auth(p)
    \/ cmj_prev(p)
    \/ cmj_room(p)
    \/ cmn_lock(p)
    \/ cmn_auth(p)
    \/ cm_state(p)
    \/ cm_member(p)
    \/ cm_hosts(p)
    \/ cm_fed(p)
    \/ cmd_store_room(p)
    \/ cmd_fed(p)
    \/ cmd_state(p)

\* ---------------------------------------------------------------- create_room
\* creator_join with the creator's join authorized like any other
creator_join_with_auth(p, room_id) ==
    /\ event' = [event EXCEPT ![p] =
           RoomMemberEvent(room_id, event[p].user_id, event[p].user_id, JOIN)]
    /\ args' = [args EXCEPT ![p].broadcast_msg = TRUE, ![p].do_auth = TRUE]
    /\ pc' = [pc EXCEPT ![p] = "cmj_lock"]

\* create_room: the join_event driven through change_membership(join_event,
\* broadcast_msg=True, do_auth=False), which waits for the room lock
creator_join(p, room_id) ==
    /\ event' = [event EXCEPT ![p] =
           RoomMemberEvent(room_id, event[p].user_id, event[p].user_id, JOIN)]
    /\ args' = [args EXCEPT ![p].broadcast_msg = TRUE, ![p].do_auth = FALSE]
    /\ pc' = [pc EXCEPT ![p] = "cmj_lock"]

\* the caller invokes create_room(user_id, room_id, config)
call_create_room(p) ==
    /\ pc[p] = "idle"
    /\ \E room_id \in Rooms \cup {None}, is_public \in BOOLEAN :
         /\ locals' = [locals EXCEPT ![p].room_id = room_id]
         /\ args' = [args EXCEPT ![p].user_id = "u1", ![p].room_id = room_id,
                                  ![p].is_public = is_public]
         /\ pc' = [pc EXCEPT ![p] = IF room_id # None THEN "cr_store" ELSE "cr_gen"]
    /\ event' = [event EXCEPT ![p].user_id = "u1"]
    /\ top' = [top EXCEPT ![p] = "create_room"]
    /\ UNCHANGED <<room_lock, lock_tickets, store_vars, result, hist>>

\* if room_id: yield self.store.store_room(room_id=room_id, ...)
cr_store(p) ==
    /\ pc[p] = "cr_store"
    /\ LET room_id == locals[p].room_id
           e == [event[p] EXCEPT !.room_id = room_id]
       IN IF rooms[room_id].exists
          THEN /\ Raise(p, "StoreError")
               /\ hist' = Log(p, "store_room_failed", e, 0)
               /\ UNCHANGED <<rooms, event, args>>
          ELSE /\ rooms' = store_room(rooms, room_id, event[p].user_id,
                                      args[p].is_public)
               /\ hist' = Log(p, "store_room", e, 0)
               /\ creator_join(p, room_id)
               /\ UNCHANGED result
    /\ UNCHANGED <<room_lock, lock_tickets, room_members, store_seq, top, locals>>

\* cr_gen giving up one collision too late
cr_gen_six_attempts(p) ==
    /\ pc[p] = "cr_gen"
    /\ \E gen_room_id \in Rooms :
         LET e == [event[p] EXCEPT !.room_id = gen_room_id]
         IN IF rooms[gen_room_id].exists
            THEN /\ locals' = [locals EXCEPT ![p].attempts = @ + 1]
                 /\ hist' = Log(p, "store_room_failed", e, 0)
                 /\ IF locals[p].attempts + 1 <= MaxAttempts
                    THEN UNCHANGED <<pc, result>>
                    ELSE Raise(p, "AllocError")
                 /\ UNCHANGED <<rooms, event, args>>
            ELSE /\ rooms' = store_room(rooms, gen_room_id, event[p].user_id,
                                        args[p].is_public)
                 /\ locals' = [locals EXCEPT ![p].room_id = gen_room_id]
                 /\ hist' = Log(p, "store_room", e, 0)
                 /\ creator_join(p, gen_room_id)
                 /\ UNCHANGED result
    /\ UNCHANGED <<room_lock, lock_tickets, room_members, store_seq, top>>

\* while attempts < 5: gen_room_id = random_string(18); yield store_room(...);
\* except StoreError: attempts += 1; if not room_id: raise StoreError(500, ...)
cr_gen(p) ==
    /\ pc[p] = "cr_gen"
    /\ \E gen_room_id \in Rooms :
         LET e == [event[p] EXCEPT !.room_id = gen_room_id]
         IN IF rooms[gen_room_id].exists
            THEN /\ locals' = [locals EXCEPT ![p].attempts = @ + 1]
                 /\ hist' = Log(p, "store_room_failed", e, 0)
                 /\ IF locals[p].attempts + 1 < MaxAttempts
                    THEN UNCHANGED <<pc, result>>
                    ELSE Raise(p, "AllocError")
                 /\ UNCHANGED <<rooms, event, args>>
            ELSE /\ rooms' = store_room(rooms, gen_room_id, event[p].user_id,
                                        args[p].is_public)
                 /\ locals' = [locals EXCEPT ![p].room_id = gen_room_id]
                 /\ hist' = Log(p, "store_room", e, 0)
                 /\ creator_join(p, gen_room_id)
                 /\ UNCHANGED result
    /\ UNCHANGED <<room_lock, lock_tickets, room_members, store_seq, top>>

create_room(p) ==
    \/ cr_store(p)
    \/ cr_gen(p)

\* ---------------------------------------------------------------- get_room_path_data
\* RoomTopicEvent.TYPE
RoomTopicEvent == "topic"

EventTypes == {RoomTopicEvent, "other"}

\* the <<public_room_rules, private_room_rules>> a caller supplies; the first
\* pair is the defaults
RuleInputs == {<<{}, {JOIN}>>, <<{JOIN}, {}>>, <<{JOIN}, {LEAVE}>>}

\* topic_rules leaving the caller's private_room_rules as supplied
topic_rules_as_supplied(event_type, private_room_rules) == private_room_rules

\* if event_type == RoomTopicEvent.TYPE: private_room_rules = ["invite", "join"]
topic_rules(event_type, private_room_rules) ==
    IF event_type = RoomTopicEvent THEN {INVITE, JOIN} ELSE private_room_rules

\* member_state = member.membership if member else None
member_state(member) == IF member = NoRow THEN None ELSE member.membership

\* the read of the path data, as a call of the log
PathRead(p) ==
    [NoEvent EXCEPT !.type = "path", !.room_id = args[p].room_id,
                    !.user_id = args[p].user_id]

\* the caller invokes get_room_path_data(user_id, room_id, path, event_type,
\* public_room_rules, private_room_rules)
call_get_room_path_data(p) ==
    /\ pc[p] = "idle"
    /\ \E u \in LocalUsers, r \in Rooms, et \in EventTypes, rules \in RuleInputs :
         /\ args' = [args EXCEPT ![p] =
                [NoArgs EXCEPT !.user_id = u, !.room_id = r, !.event_type = et,
                               !.public_room_rules = rules[1],
                               !.private_room_rules = rules[2]]]
         /\ locals' = [locals EXCEPT
                ![p].private_room_rules = topic_rules(et, rules[2])]
    /\ top' = [top EXCEPT ![p] = "get_room_path_data"]
    /\ pc' = [pc EXCEPT ![p] = "gp_room"]
    /\ UNCHANGED <<room_lock, lock_tickets, store_vars, event, result, hist>>

\* room = yield self.store.get_room(room_id); if not room: raise RoomError(403, ...)
gp_room(p) ==
    /\ pc[p] = "gp_room"
    /\ LET room == rooms[args[p].room_id]
       IN \/ /\ room.exists
             /\ locals' = [locals EXCEPT ![p].room = room]
             /\ pc' = [pc EXCEPT ![p] = "gp_member"]
             /\ UNCHANGED result
          \/ /\ ~room.exists
             /\ Raise(p, "Forbidden")
             /\ UNCHANGED locals
          \/ /\ Fault(p, "StoreFailure")
             /\ UNCHANGED locals
    /\ UNCHANGED <<room_lock, lock_tickets, store_vars, top, event, args, hist>>

\* member = yield self.store.get_room_member(room_id, user_id); the rule list
\* of the room's visibility, when not empty, must hold member_state
gp_member(p) ==
    /\ pc[p] = "gp_member"
    /\ LET member == room_members[<<args[p].room_id, args[p].user_id>>]
           room == locals[p].room
           public_room_rules == args[p].public_room_rules
           private_room_rules == locals[p].private_room_rules
           refused ==
               IF room.is_public /\ public_room_rules # {}
               THEN member_state(member) \notin public_room_rules
               ELSE IF ~room.is_public /\ private_room_rules # {}
               THEN member_state(member) \notin private_room_rules
               ELSE FALSE
       IN \/ /\ refused
             /\ Raise(p, "Forbidden")
          \/ /\ ~refused
             /\ pc' = [pc EXCEPT ![p] = "gp_data"]
             /\ UNCHANGED result
          \/ Fault(p, "StoreFailure")
    /\ UNCHANGED <<room_lock, lock_tickets, store_vars, top, event, args, locals, hist>>

\* data = yield self.store.get_path_data(path); defer.returnValue(data)
gp_data(p) ==
    /\ pc[p] = "gp_data"
    /\ \/ /\ hist' = Log(p, "get_path_data", PathRead(p), 0)
          /\ Return(p)
       \/ /\ Fault(p, "StoreFailure")
          /\ UNCHANGED hist
    /\ UNCHANGED <<room_lock, lock_tickets, store_vars, top, event, args, locals>>

get_room_path_data(p) ==
    \/ gp_room(p)
    \/ gp_member(p)
    \/ gp_data(p)

Next ==
    \E p \in Procs :
        \/ call_send_message(p)
        \/ send_message(p)
        \/ call_send_feedback(p)
        \/ send_feedback(p)
        \/ call_change_membership(p)
        \/ change_membership(p)
        \/ call_create_room(p)
        \/ create_room(p)
        \/ call_get_room_path_data(p)
        \/ get_room_path_data(p)

Spec == Init /\ [][Next]_vars

\* every yield an invocation stands at completes in the end: the reactor runs
\* the callback of a collaborator that answered, and the lock is handed to a
\* waiter once it stays free
Fairness ==
    \A p \in Procs :
        WF_vars(send_message(p) \/ send_feedback(p) \/ change_membership(p)
                    \/ create_room(p) \/ get_room_path_data(p))

FairSpec == Spec /\ Fairness

\* ---------------------------------------------------------------- properties
\* the yields inside a `with (yield self.room_lock.lock(...))` block
LockedPCs ==
    {"sm_auth", "sm_persist", "sm_hosts", "sm_fed",
     "sf_auth", "sf_persist", "sf_hosts",
     "cmj_auth", "cmj_prev", "cmj_room", "cmn_auth",
     "cm_state", "cm_member", "cm_hosts"}

\* the persist step and the destination step that follows it
PersistPCs == {"sm_persist", "sm_hosts", "sf_persist", "sf_hosts", "cm_member", "cm_hosts"}

InLocked(p, r) == pc[p] \in LockedPCs /\ event[p].room_id = r

\* the calls of invocation p, in order, that satisfy Test
Calls(p, Test(_)) == SelectSeq(hist[p], Test)

HasCall(p, Test(_)) == \E i \in 1..Len(hist[p]) : Test(hist[p][i])

\* C1: for every room at most one invocation of send_message, send_feedback
\* or change_membership is inside the room's locked section, and it is the
\* lock holder; so while one invocation stands between its persist step and
\* its destination step no other invocation on the room is at either step.
C1_OneInvocationInLockedSection ==
    \A r \in Rooms : \A p, q \in Procs :
        /\ InLocked(p, r) => room_lock[r] = p
        /\ (InLocked(p, r) /\ InLocked(q, r)) => p = q
        /\ (pc[p] \in PersistPCs /\ pc[q] \in PersistPCs
              /\ event[p].room_id = r /\ event[q].room_id = r) => p = q

\* one invocation between persist and destinations, another waiting for the
\* same room's lock
C1_Witness ==
    \E p, q \in Procs :
        /\ p # q
        /\ pc[p] \in {"sm_hosts", "sf_hosts", "cm_hosts"}
        /\ pc[q] \in {"sm_lock", "sf_lock", "cmj_lock", "cmn_lock"}
        /\ event[p].room_id = event[q].room_id

\* C2: an invocation that has ended, by return or by an error raised at any
\* step, holds no room lock.
C2_FinishedHoldsNoLock ==
    \A p \in Procs : pc[p] = "done" => \A r \in Rooms : room_lock[r] # p

\* send_message ended by the failure of the federation send inside its block
C2_Witness ==
    \E p \in Procs :
        /\ pc[p] = "done"
        /\ top[p] = "send_message"
        /\ result[p] = "FederationFailure"
        /\ hist[p][Len(hist[p])].held

AuthFails(p) == result[p] = "pending" /\ result'[p] = "AuthError"

IsAuthFailed(c) == c.call = "auth_failed"

\* C3: when authorization fails the operation ends with an error and has
\* changed nothing: the store is as it was, and the invocation has made no
\* other collaborator call (no persist, no membership row, no room record, no
\* state handler call, no federation forward, no notification, no message).
C3_AuthFailureChangesNothing ==
    /\ [][\A p \in Procs : AuthFails(p) =>
            /\ UNCHANGED store_vars
            /\ hist[p] = <<>>
            /\ pc'[p] = "done"]_vars
    /\ [](\A p \in Procs : result[p] = "AuthError" =>
            /\ Len(hist[p]) = 1
            /\ IsAuthFailed(hist[p][1])
            /\ pc[p] = "done")

\* a change_membership whose authorization failed
C3_Witness ==
    \E p \in Procs :
        /\ result[p] = "AuthError"
        /\ top[p] = "change_membership"
        /\ event[p].membership # JOIN

\* the dance condition, on the store as it is
DanceCondition(r, u) ==
    /\ room_members[<<r, u>>].membership = INVITE
    /\ ~is_mine(room_members[<<r, u>>].sender)
    /\ ~rooms[r].exists

\* C4: a JOIN leaves the decision (made under the room lock) for the dance
\* branch exactly when the prior membership is invite, the inviter is remote
\* and the room has no local record, and for the ordinary branch otherwise.
C4_DanceIffCondition ==
    [][\A p \in Procs :
         (pc[p] \in {"cmj_prev", "cmj_room"}
            /\ pc'[p] \in {"cm_state", "cmd_store_room"}) =>
            /\ room_lock[event[p].room_id] = p
            /\ (pc'[p] = "cmd_store_room")
                 <=> DanceCondition(event[p].room_id, event[p].target_user_id)
            /\ (pc'[p] = "cm_state")
                 <=> ~DanceCondition(event[p].room_id, event[p].target_user_id)]_vars

\* an ordinary join of a user invited by a remote user, the room being known
C4_Witness ==
    \E p \in Procs :
        /\ pc[p] = "cm_state"
        /\ event[p].membership = JOIN
        /\ room_members[<<event[p].room_id, event[p].target_user_id>>]
              = [membership |-> INVITE, sender |-> "v"]
        /\ rooms[event[p].room_id].exists

\* the dance branch taken
C4_WitnessDance == \E p \in Procs : pc[p] = "cmd_store_room"

IsJoinRequest(c) == c.call = "federation" /\ c.ev.type = "invite_join"

IsGetState(c) == c.call = "get_state"

IsDanceCall(c) == IsJoinRequest(c) \/ IsGetState(c)

IsStateCall(c) == c.call = "state"

IsMemberWrite(c) == c.call = "member"

\* C5: an invocation that took the dance branch and whose collaborators all
\* answered has issued exactly one join-request, addressed to the inviter's
\* host alone, then exactly one remote-state fetch, has made no state handler
\* call and has written no membership row.
C5_DanceOneJoinRequestOneFetch ==
    \A p \in Procs :
        (pc[p] = "done" /\ locals[p].is_remote_invite_join
            /\ result[p] \notin Failures) =>
            /\ Len(Calls(p, IsDanceCall)) = 2
            /\ IsJoinRequest(Calls(p, IsDanceCall)[1])
            /\ Calls(p, IsDanceCall)[1].ev.destinations = {domain(locals[p].inviter)}
            /\ IsGetState(Calls(p, IsDanceCall)[2])
            /\ ~HasCall(p, IsStateCall)
            /\ ~HasCall(p, IsMemberWrite)

\* the host added to the joined hosts for an invite or a join
AddedHost(e) ==
    IF e.content_membership \in {INVITE, JOIN} THEN {domain(e.target_user_id)} ELSE {}

\* C6: when the ordinary update sets the event's destinations the invocation
\* holds the room lock, the row of (room, target user) carries the event's
\* membership (join for a JOIN), written in this locked section, and the
\* destinations are the joined hosts of the room as they are now, with the
\* target user's host added for a join or an invite and nothing added otherwise.
C6_OrdinaryDestinations ==
    [][\A p \in Procs :
         (pc[p] = "cm_hosts" /\ pc'[p] = "cm_fed") =>
            LET e == event[p]
                r == e.room_id
                last == hist[p][Len(hist[p])]
            IN /\ room_lock[r] = p
               /\ IsMemberWrite(last) /\ last.held /\ last.ticket = locals[p].ticket
               /\ room_members[<<r, e.target_user_id>>].membership = e.content_membership
               /\ e.membership = JOIN =>
                    room_members[<<r, e.target_user_id>>].membership = JOIN
               /\ event'[p].destinations =
                    {domain(u) : u \in {x \in Users :
                                          room_members[<<r, x>>].membership = JOIN}}
                    \cup AddedHost(e)]_vars

\* an ordinary join about to be forwarded to the joined hosts
C6_Witness ==
    \E p \in Procs :
        /\ pc[p] = "cm_fed"
        /\ event[p].membership = JOIN
        /\ ~locals[p].is_remote_invite_join
        /\ event[p].destinations = {server_name}

\* C7: send_feedback forwards to federation and notifies after it has left
\* the locked section; send_message does both while it holds the lock.
C7_ForwardOutsideOrInsideLock ==
    \A p \in Procs : \A i \in 1..Len(hist[p]) :
        LET c == hist[p][i]
        IN c.call \in {"federation", "federation_failed", "notify"} =>
              /\ c.ev.type = "feedback" =>
                    /\ ~c.held
                    /\ c.ticket > 0
                    /\ \E j \in 1..(i - 1) : hist[p][j].call = "persist" /\ hist[p][j].held
              /\ c.ev.type = "message" => c.held

IsNotify(c) == c.call = "notify"

\* a send_feedback and a send_message that both forwarded and notified
C7_Witness ==
    \E p, q \in Procs :
        /\ top[p] = "send_feedback" /\ HasCall(p, IsNotify)
        /\ top[q] = "send_message" /\ HasCall(q, IsNotify)

\* C8: change_membership forwards the membership event only after it has
\* left the locked section in which it wrote the row; it notifies only after
\* the forward has returned, with the sequence id of its own row write.
C8_MembershipForwardThenNotify ==
    \A p \in Procs : \A i \in 1..Len(hist[p]) :
        LET c == hist[p][i]
        IN c.ev.type = "member" =>
              /\ c.call \in {"federation", "federation_failed"} =>
                    /\ ~c.held
                    /\ \E j \in 1..(i - 1) :
                          /\ IsMemberWrite(hist[p][j])
                          /\ hist[p][j].held
                          /\ hist[p][j].id = c.id
              /\ c.call = "notify" =>
                    /\ ~c.held
                    /\ i > 1
                    /\ hist[p][i - 1].call = "federation"
                    /\ hist[p][i - 1].ev = c.ev
                    /\ c.id > 0
                    /\ \E j \in 1..(i - 1) :
                          IsMemberWrite(hist[p][j]) /\ hist[p][j].id = c.id

\* a membership notification sent after another invocation's later commit
C8_Witness ==
    \E p \in Procs : \E i \in 1..Len(hist[p]) :
        /\ IsNotify(hist[p][i])
        /\ hist[p][i].ev.type = "member"
        /\ \E q \in Procs \ {p} : \E j \in 1..Len(hist[q]) :
              hist[q][j].id > hist[p][i].id /\ hist[q][j].call \in {"member", "persist"}

\* create_room's own store_room calls
IsStoreAttempt(c) == c.call \in {"store_room", "store_room_failed"} /\ c.ev.type = "none"

\* C9: create_room without a room id makes at most 5 store attempts; the
\* first id the store accepts ends the loop and is the id returned; after 5
\* collisions, and only then, it fails with the allocation error, having
\* stored no room, taken no lock and made no other call.
C9_BoundedRoomIdRetry ==
    \A p \in Procs :
        (top[p] = "create_room" /\ args[p].room_id = None) =>
            LET at == Calls(p, IsStoreAttempt)
                n == Len(at)
            IN /\ n <= 5
               /\ \A i \in 1..n : at[i].call = "store_room" => i = n
               /\ result[p] = "ok" =>
                    /\ n >= 1
                    /\ at[n].call = "store_room"
                    /\ locals[p].room_id = at[n].ev.room_id
               /\ (n = 5 /\ at[5].call = "store_room_failed") <=> result[p] = "AllocError"
               /\ (n >= 1 /\ at[n].call = "store_room_failed" /\ n < 5) => pc[p] = "cr_gen"
               /\ result[p] = "AllocError" =>
                    /\ pc[p] = "done"
                    /\ Len(hist[p]) = 5
                    /\ locals[p].ticket = 0
                    /\ locals[p].room_id = None

\* a create_room that succeeded with its 5th id after 4 collisions
C9_Witness ==
    \E p \in Procs :
        /\ top[p] = "create_room"
        /\ args[p].room_id = None
        /\ result[p] = "ok"
        /\ locals[p].attempts = 4

\* a create_room that gave up after 5 collisions
C9_WitnessExhausted == \E p \in Procs : result[p] = "AllocError"

IsAuth(c) == c.call \in {"auth", "auth_failed"}

IsRoomKnown(c) == c.call = "room_known"

\* C10: a create_room that returned has written, under the lock of the
\* returned room, the row (room, creator) with membership join, through the
\* ordinary branch (no dance call), without any authorization call, and has
\* persisted the "joined the room" message after that row; the stored row is
\* that join row unless another invocation has written the creator's row
\* in the room since.
C10_CreatorJoined ==
    \A p \in Procs :
        (top[p] = "create_room" /\ result[p] = "ok") =>
            /\ pc[p] = "done"
            /\ rooms[locals[p].room_id].exists
            /\ ~locals[p].is_remote_invite_join
            /\ ~HasCall(p, IsDanceCall)
            /\ ~HasCall(p, IsAuth)
            /\ \E i \in 1..Len(hist[p]) :
                  /\ IsMemberWrite(hist[p][i])
                  /\ hist[p][i].held
                  /\ hist[p][i].ev.room_id = locals[p].room_id
                  /\ hist[p][i].ev.target_user_id = args[p].user_id
                  /\ hist[p][i].ev.content_membership = JOIN
                  /\ \E j \in (i + 1)..Len(hist[p]) :
                        /\ hist[p][j].call = "persist"
                        /\ hist[p][j].ev.room_id = locals[p].room_id
                        /\ hist[p][j].ev.body = <<"joined", args[p].user_id>>
                  /\ (\A q \in Procs \ {p} : \A k \in 1..Len(hist[q]) :
                         ~(/\ IsMemberWrite(hist[q][k])
                           /\ hist[q][k].ev.room_id = locals[p].room_id
                           /\ hist[q][k].ev.target_user_id = args[p].user_id
                           /\ hist[q][k].id > hist[p][i].id))
                       => room_members[<<locals[p].room_id, args[p].user_id>>]
                            = [membership |-> JOIN, sender |-> args[p].user_id]

\* a create_room that returned for an id whose creator held a remote invite
C10_Witness ==
    \E p \in Procs :
        /\ top[p] = "create_room"
        /\ result[p] = "ok"
        /\ HasCall(p, IsRoomKnown)

\* the edges of the membership state machine: invite from none, join from
\* none or invite, leave from any state
MembershipEdge(from, to) ==
    \/ to = INVITE /\ from = "none"
    \/ to = JOIN /\ from \in {"none", INVITE}
    \/ to = LEAVE

\* C11: every membership row change_membership writes follows an edge of the
\* membership state machine from the membership the row held before the write.
C11_RowWritesFollowEdges ==
    [][\A p \in Procs :
         (pc[p] = "cm_member" /\ pc'[p] = "cm_hosts") =>
            MembershipEdge(
                room_members[<<event[p].room_id, event[p].target_user_id>>].membership,
                event[p].content_membership)]_vars

\* a mutation of a room's persisted state made by send_message, send_feedback
\* or change_membership: an event persisted, a membership row written, the
\* room record created by the dance
IsRoomMutation(c) ==
    \/ c.call \in {"persist", "member"}
    \/ c.call = "store_room" /\ c.ev.type = "member"

\* C12: every mutation of a room's persisted state made by send_message,
\* send_feedback or change_membership was made while the invocation held the
\* room's lock.
C12_MutationsUnderLock ==
    \A p \in Procs : \A i \in 1..Len(hist[p]) :
        IsRoomMutation(hist[p][i]) => hist[p][i].held

\* an event persisted or a membership row written: the commits that carry a
\* store-assigned sequence id
IsCommit(c) == c.call \in {"persist", "member"}

\* the commits on room r, as <<invocation, index in its calls>>
Commits(r) ==
    UNION {{<<p, i>> : i \in {j \in 1..Len(hist[p]) :
                                 IsCommit(hist[p][j]) /\ hist[p][j].ev.room_id = r}} :
           p \in Procs}

\* C13: for a single room, every commit is made in a locked section of its
\* own (one lock acquisition, one commit), and of two commits the one made
\* under the earlier acquisition of the room's lock has the smaller sequence id.
C13_CommitOrderIsLockOrder ==
    \A r \in Rooms : \A x, y \in Commits(r) :
        LET c == hist[x[1]][x[2]]
            d == hist[y[1]][y[2]]
        IN /\ c.ticket > 0 /\ c.ticket <= lock_tickets[r]
           /\ c.id > 0 /\ c.id <= store_seq
           /\ x # y => c.ticket # d.ticket
           /\ c.ticket < d.ticket <=> c.id < d.id

\* one invocation committed twice on a room (a membership row, then its
\* message) and another invocation committed on that room in between
C13_Witness ==
    \E r \in Rooms : \E x, y, z \in Commits(r) :
        /\ x[1] = z[1] /\ y[1] # x[1]
        /\ hist[x[1]][x[2]].id < hist[y[1]][y[2]].id
        /\ hist[y[1]][y[2]].id < hist[z[1]][z[2]].id

\* invocation p is a change_membership with broadcast_msg whose event carries
\* a membership other than invite, join and leave
UnknownMembershipBroadcast(p) ==
    /\ top[p] = "change_membership"
    /\ args[p].broadcast_msg
    /\ \E i \in 1..Len(hist[p]) :
          /\ hist[p][i].ev.type = "member"
          /\ hist[p][i].ev.content_membership \notin {INVITE, JOIN, LEAVE}

\* the yields of send_message
MessagePCs == {"sm_lock", "sm_auth", "sm_persist", "sm_hosts", "sm_fed"}

\* C14: a change_membership with broadcast_msg and an unrecognized membership
\* never builds a system message: it never enters send_message and makes no
\* call with a message event (no persist, no forward, no notification); unless
\* authorization or a collaborator failed first, it ends with the error raised
\* where the message is built, after the membership event was notified.  That
\* error is raised by no other call.
C14_UnknownMembershipNoMessage ==
    \A p \in Procs :
        /\ UnknownMembershipBroadcast(p) =>
              /\ event[p].type = "member"
              /\ pc[p] \notin MessagePCs
              /\ \A i \in 1..Len(hist[p]) : hist[p][i].ev.type # "message"
              /\ (pc[p] = "done" /\ result[p] \notin Failures \cup {"AuthError"}) =>
                    result[p] = "RoomError"
        /\ result[p] = "RoomError" =>
              /\ UnknownMembershipBroadcast(p)
              /\ pc[p] = "done"
              /\ hist[p][Len(hist[p])].call = "notify"
              /\ hist[p][Len(hist[p])].ev = event[p]

\* the fatal error raised by a change_membership with an unrecognized
\* membership that was authorized
C14_Witness ==
    \E p \in Procs :
        /\ result[p] = "RoomError"
        /\ args[p].do_auth
        /\ event[p].content_membership = "banana"

\* the rule list that applies to the read of invocation p: the public rules
\* in a public room, and in a private room invite and join for a topic read
\* and the caller's private rules for any other read
ApplicableRules(p) ==
    IF rooms[args[p].room_id].is_public THEN args[p].public_room_rules
    ELSE IF args[p].event_type = RoomTopicEvent THEN {INVITE, JOIN}
    ELSE args[p].private_room_rules

\* the stored membership of the caller of the read p ("none" without a row)
CallerMembership(p) == room_members[<<args[p].room_id, args[p].user_id>>].membership

IsPathRead(c) == c.call = "get_path_data"

\* the read p takes a step and no store call of it fails
ReadStep(p, at) == pc[p] = at /\ pc'[p] # at /\ result'[p] \notin Failures

\* C15: get_room_path_data goes on to read the path data exactly when the
\* room has a record and the applicable rule list is empty or holds the
\* caller's stored membership, and returns what that read gives; otherwise it
\* ends Forbidden and has not read the path data.  In a private room a topic
\* read is let through for membership invite and refused for membership leave.
C15_PathDataReadRules ==
    /\ [][\A p \in Procs :
            /\ ReadStep(p, "gp_room") =>
                  IF rooms[args[p].room_id].exists
                  THEN pc'[p] = "gp_member"
                  ELSE pc'[p] = "done" /\ result'[p] = "Forbidden"
            /\ ReadStep(p, "gp_member") =>
                  /\ rooms[args[p].room_id].exists
                  /\ IF ApplicableRules(p) = {} \/ CallerMembership(p) \in ApplicableRules(p)
                     THEN pc'[p] = "gp_data"
                     ELSE pc'[p] = "done" /\ result'[p] = "Forbidden"
                  /\ (~rooms[args[p].room_id].is_public
                        /\ args[p].event_type = RoomTopicEvent) =>
                        /\ CallerMembership(p) = INVITE => pc'[p] = "gp_data"
                        /\ CallerMembership(p) = LEAVE => result'[p] = "Forbidden"
            /\ ReadStep(p, "gp_data") =>
                  /\ result'[p] = "ok"
                  /\ hist'[p] = <<Call(p, "get_path_data", PathRead(p), 0)>>]_vars
    /\ [](\A p \in Procs : top[p] = "get_room_path_data" =>
            /\ HasCall(p, IsPathRead) <=> result[p] = "ok"
            /\ result[p] \in {"pending", "ok", "Forbidden"} \cup Failures
            /\ result[p] = "Forbidden" => pc[p] = "done" /\ hist[p] = <<>>)

\* a topic read in a private room that returned the data to a caller whose
\* membership is invite and who supplied private rules without invite
C15_Witness ==
    \E p \in Procs :
        /\ top[p] = "get_room_path_data"
        /\ result[p] = "ok"
        /\ args[p].event_type = RoomTopicEvent
        /\ args[p].private_room_rules = {LEAVE}
        /\ ~rooms[args[p].room_id].is_public
        /\ CallerMembership(p) = INVITE

\* a topic read in a private room refused to a caller whose membership is
\* leave and who supplied private rules with leave
C15_WitnessRefused ==
    \E p \in Procs :
        /\ top[p] = "get_room_path_data"
        /\ result[p] = "Forbidden"
        /\ args[p].event_type = RoomTopicEvent
        /\ args[p].private_room_rules = {LEAVE}
        /\ rooms[args[p].room_id].exists
        /\ ~rooms[args[p].room_id].is_public
        /\ CallerMembership(p) = LEAVE

IsForward(c) == c.call \in {"federation", "federation_failed"}

\* the call i of invocation p hands to federation an event that p committed
\* before, under the sequence id it forwards it with
PersistedBefore(p, i) ==
    \E j \in 1..(i - 1) :
        /\ IsCommit(hist[p][j])
        /\ hist[p][j].ev = [hist[p][i].ev EXCEPT !.destinations = {}]
        /\ hist[p][j].id = hist[p][i].id

\* invocation p wrote the row of (room, target) last
WroteRowLast(p, i) ==
    \A q \in Procs \ {p} : \A k \in 1..Len(hist[q]) :
        ~(/\ IsMemberWrite(hist[q][k])
          /\ hist[q][k].ev.room_id = hist[p][i].ev.room_id
          /\ hist[q][k].ev.target_user_id = hist[p][i].ev.target_user_id
          /\ hist[q][k].id > hist[p][i].id)

\* a federation forward that failed ends the invocation with that error,
\* leaves the store as it is (the committed row still stored unless another
\* invocation overwrote it), and is followed by no notification of the event
\* and, for a membership event, by no system message
FailedForwardEndsCall(p, i) ==
    LET c == hist[p][i]
    IN /\ i = Len(hist[p])
       /\ pc[p] = "done"
       /\ result[p] = "FederationFailure"
       /\ c.id <= store_seq
       /\ \A j \in 1..Len(hist[p]) :
             /\ ~(IsNotify(hist[p][j]) /\ hist[p][j].ev = c.ev)
             /\ (c.ev.type # "message") =>
                   ~(j > i /\ hist[p][j].ev.type = "message")
       /\ (c.ev.type = "member" /\ WroteRowLast(p, i)) =>
             room_members[<<c.ev.room_id, c.ev.target_user_id>>]
                = [membership |-> c.ev.content_membership, sender |-> c.ev.user_id]

\* a step in which a federation forward fails changes nothing in the store
FailedForwardKeepsStore ==
    [][\A p \in Procs :
         (result[p] = "pending" /\ result'[p] = "FederationFailure") =>
            UNCHANGED store_vars]_vars

\* C16 as stated: every event handed to federation was persisted earlier in
\* the same invocation, and a failed forward reaches the caller, rolls
\* nothing back and is followed by no notification and no system message.
C16_EveryForwardAfterPersist ==
    \A p \in Procs : \A i \in 1..Len(hist[p]) :
        IsForward(hist[p][i]) =>
            /\ PersistedBefore(p, i)
            /\ hist[p][i].call = "federation_failed" => FailedForwardEndsCall(p, i)

\* C16 amended: every event handed to federation, other than the join-request
\* of the dance branch, which is never persisted, was persisted earlier in the
\* same invocation; a failed forward, the join-request's included, reaches the
\* caller, rolls nothing back and is followed by no notification and no
\* system message.
C16_ForwardAfterPersistButJoinRequest ==
    /\ [](\A p \in Procs : \A i \in 1..Len(hist[p]) :
            IsForward(hist[p][i]) =>
                /\ (hist[p][i].ev.type # "invite_join") => PersistedBefore(p, i)
                /\ (hist[p][i].ev.type = "invite_join") =>
                      \A j \in 1..(i - 1) : ~IsCommit(hist[p][j])
                /\ hist[p][i].call = "federation_failed" => FailedForwardEndsCall(p, i))
    /\ FailedForwardKeepsStore

\* a change_membership with broadcast_msg whose forward of the membership
\* event failed after the row was written
C16_Witness ==
    \E p \in Procs :
        /\ result[p] = "FederationFailure"
        /\ args[p].broadcast_msg
        /\ hist[p][Len(hist[p])].call = "federation_failed"
        /\ hist[p][Len(hist[p])].ev.type = "member"
        /\ room_members[<<event[p].room_id, event[p].target_user_id>>].membership
              = event[p].content_membership

\* the yields at which an invocation waits for a room lock
LockWaitPCs == {"sm_lock", "sf_lock", "cmj_lock", "cmn_lock"}

\* C17: an invocation that waits for a room lock holds no lock, so the
\* system message of change_membership enters its own locked section after
\* the first was left; when every yield completes in the end, every
\* invocation that was started finishes, and from some point on all room
\* locks are free.
C17_NoSelfWaitAndAllFinish ==
    /\ [](\A p \in Procs : pc[p] \in LockWaitPCs =>
            \A r \in Rooms : room_lock[r] # p)
    /\ <>[](/\ \A p \in Procs : pc[p] \in {"idle", "done"}
            /\ \A r \in Rooms : room_lock[r] = NoOne)

\* a change_membership that left its first locked section waits to send its
\* system message while another invocation with a system message to send
\* holds the lock of the room
C17_Witness ==
    \E p, q \in Procs :
        /\ pc[p] = "sm_lock"
        /\ top[p] = "change_membership"
        /\ HasCall(p, IsMemberWrite)
        /\ room_lock[event[p].room_id] = q
        /\ q # p
        /\ args[q].broadcast_msg

\* a message event handed to federation or notified to the subscribers
IsMessageOut(c) == c.call \in {"federation", "notify"} /\ c.ev.type = "message"

IsMessagePersist(c) == c.call = "persist" /\ c.ev.type = "message"

\* invocation q stands between the persist of id and its forward
AwaitsForward(q, id) == pc[q] \in {"sm_hosts", "sm_fed"} /\ locals[q].store_id = id

\* C18: send_message forwards and notifies a message in the locked section
\* in which it persisted it, the notification right after the forward; so
\* when a message of a room is forwarded no message of that room with a
\* smaller sequence id still awaits its forward, and none with a greater id
\* has been persisted: the messages of a room leave in the order of their ids.
C18_MessagesLeaveInPersistOrder ==
    /\ [](\A p \in Procs : \A i \in 1..Len(hist[p]) :
            LET c == hist[p][i]
            IN IsMessageOut(c) =>
                  /\ c.held
                  /\ \E j \in 1..(i - 1) :
                        /\ IsMessagePersist(hist[p][j])
                        /\ hist[p][j].id = c.id
                        /\ hist[p][j].ticket = c.ticket
                        /\ hist[p][j].held
                  /\ IsNotify(c) =>
                        /\ hist[p][i - 1].call = "federation"
                        /\ hist[p][i - 1].id = c.id
                        /\ hist[p][i - 1].ev = c.ev
                  /\ \A q \in Procs \ {p} : \A j \in 1..Len(hist[q]) :
                        (/\ IsMessagePersist(hist[q][j])
                         /\ hist[q][j].ev.room_id = c.ev.room_id
                         /\ hist[q][j].id < c.id) => ~AwaitsForward(q, hist[q][j].id))
    /\ [][\A p \in Procs :
            (pc[p] = "sm_fed" /\ result'[p] = "ok") =>
                \A q \in Procs : \A j \in 1..Len(hist[q]) :
                    (/\ IsMessagePersist(hist[q][j])
                     /\ hist[q][j].ev.room_id = event[p].room_id)
                        => hist[q][j].id <= locals[p].store_id]_vars

\* two send_message calls on one room that both forwarded and notified
C18_Witness ==
    \E p, q \in Procs :
        /\ p # q
        /\ top[p] = "send_message" /\ top[q] = "send_message"
        /\ event[p].room_id = event[q].room_id
        /\ HasCall(p, IsMessageOut) /\ HasCall(q, IsMessageOut)
        /\ locals[p].store_id < locals[q].store_id

\* invocation p decided for the dance branch in room r
TookDance(p, r) == locals[p].is_remote_invite_join /\ event[p].room_id = r

\* the dance's store_room refused for a duplicate id
IsDanceStoreRefused(c) == c.call = "store_room_failed" /\ c.ev.type = "member"

\* C19: for every room at most one change_membership(JOIN) invocation
\* decides for the dance branch, and the dance's store of the room record is
\* never refused for a duplicate id.
C19_OneDancePerRoom ==
    /\ \A r \in Rooms : \A p, q \in Procs :
          (TookDance(p, r) /\ TookDance(q, r)) => p = q
    /\ \A p \in Procs : ~HasCall(p, IsDanceStoreRefused)

\* two JOINs decided for the dance in one room and the later store_room was
\* refused
C19_TwoDancesOneRefused ==
    \E p, q \in Procs :
        /\ p # q
        /\ TookDance(p, event[q].room_id) /\ TookDance(q, event[q].room_id)
        /\ HasCall(p, IsDanceStoreRefused)
        /\ result[p] = "StoreError"

\* a system message announcing a membership change was persisted
IsSystemPersist(c) ==
    /\ c.call = "persist"
    /\ c.ev.user_id = "_homeserver_"
    /\ c.ev.body # <<>>

\* the membership a system message announces, and the user it is about
AnnouncedMembership(body) ==
    IF body[1] = "invited" THEN INVITE
    ELSE IF body[1] = "joined" THEN JOIN
    ELSE LEAVE

AnnouncedTarget(body) == body[Len(body)]

\* C20: a system message announcing a membership change is persisted only
\* after the same invocation wrote, in that room, a membership row with the
\* announced membership for the announced user; and when a "joined the room"
\* message is persisted the stored membership of that user is not invite.
C20_MessageAfterRow ==
    \A p \in Procs : \A i \in 1..Len(hist[p]) :
        LET c == hist[p][i]
        IN IsSystemPersist(c) =>
              /\ \E j \in 1..(i - 1) :
                    /\ IsMemberWrite(hist[p][j])
                    /\ hist[p][j].ev.room_id = c.ev.room_id
                    /\ hist[p][j].ev.target_user_id = AnnouncedTarget(c.ev.body)
                    /\ hist[p][j].ev.content_membership = AnnouncedMembership(c.ev.body)
              /\ (i = Len(hist[p]) /\ pc[p] = "sm_hosts" /\ c.ev.body[1] = "joined") =>
                    room_members[<<c.ev.room_id, AnnouncedTarget(c.ev.body)>>].membership
                        # INVITE

\* a dance with broadcast_msg persisted "joined the room" for a user whose
\* stored membership is invite
C20_JoinedMessageForInvited ==
    \E p \in Procs :
        /\ locals[p].is_remote_invite_join
        /\ pc[p] = "sm_hosts"
        /\ event[p].body = <<"joined", "u1">>
        /\ room_members[<<event[p].room_id, "u1">>].membership = INVITE
        /\ ~HasCall(p, IsMemberWrite)

====
